---- MODULE Spec2Model ----
(***************************************************************************)
(* Model of src/app.py: the payment-gated workflow (payment_success), the  *)
(* generation orchestrator (generate_consultation) and the renderer        *)
(* (create_pdf) with its line classification.                              *)
(*                                                                         *)
(* Spec       : one invocation of payment_success, with every outcome of   *)
(*              the payment provider, the text-generation capability, the  *)
(*              renderer and the clock.                                    *)
(* SpecRender : create_pdf applied to every text of a bounded set.         *)
(***************************************************************************)
EXTENDS Integers, Sequences, FiniteSets, TLC

VARIABLES
    \* ---- payment_success / generate_consultation ----
    ref,              \* the payment reference given to the invocation (input)
    pc,               \* position of the handler
    retrieves,        \* calls of stripe.checkout.Session.retrieve so far
    session,          \* what the retrieval gave: "none" | "raised" | "returned"
    attempt,          \* payment_success: attempt (outer loop variable)
    retry_delay,      \* payment_success: retry_delay
    gc_attempt,       \* generate_consultation: attempt (inner loop variable)
    gc_retry_delay,   \* generate_consultation: retry_delay
    elapsed,          \* time.time() - start_time, as time really passes
    lastCheck,        \* the value of time.time() - start_time read at line 138
    log,              \* external calls made so far: generation and renderer
    sleeps,           \* time.sleep calls made so far
    files,            \* DOWNLOAD_FOLDER: artifact id -> "none"|"partial"|"complete"
    document_result,  \* what generate_consultation returned
    status,           \* HTTP status of the response (0: no response yet)
    body,             \* JSON body of the response
    \* ---- create_pdf ----
    text,             \* the text handed to create_pdf (a sequence of characters)
    rpc,              \* position of create_pdf
    paraIdx,          \* index of the next paragraph of text.split('\n')
    content,          \* the flowables appended after the title/date blocks
    \* ---- several invocations ----
    invocation,       \* "first" | "second": which call of payment_success this is
    earlier,          \* the response of the first call and the files it left
    inv,              \* concurrent invocations: the locals of each worker
    disk              \* concurrent invocations: who wrote each artifact path

wfVars == <<ref, pc, retrieves, session, attempt, retry_delay, gc_attempt, gc_retry_delay,
            elapsed, lastCheck, log, sleeps, files, document_result, status, body>>
rdVars == <<text, rpc, paraIdx, content>>
mvVars == <<invocation, earlier, inv, disk>>
vars == <<wfVars, rdVars, mvVars>>

----------------------------------------------------------------------------
(* Bounds of the model *)

\* longest time that passes between the start of the clock (line 130) and its
\* first reading (line 138)
MaxStall == 26
\* longest time one create_pdf call takes
MaxRenderTime == 2
\* artifact identifiers uuid4().hex[:8] can take
MaxIds == 2
\* concurrent invocations (workers)
MaxProcs == 2

(* Program constants *)
timeout_limit == 25
max_retries == 2
outer_retry_delay == 1
gc_max_retries == 3
gc_retry_delay0 == 2
GenTimeout == 30

Ids == 1..MaxIds

\* how long one call of the text-generation capability takes: at once, half
\* the per-call timeout of line 265, or the whole of it
GenTimes == {0, GenTimeout \div 2, GenTimeout}

----------------------------------------------------------------------------
(* Inputs: what the payment reference resolves to at the provider *)

Refs ==
    { [exists |-> FALSE, paid |-> FALSE, state |-> "none", form_data |-> "none"] }
    \cup
    { [exists |-> TRUE, paid |-> p.paid, state |-> p.state, form_data |-> f] :
        p \in { [paid |-> TRUE,  state |-> "complete"],
                [paid |-> FALSE, state |-> "open"],
                [paid |-> FALSE, state |-> "expired"] },
        f \in {"json", "malformed"} }

NoBody == [kind |-> "none", url |-> 0, msg |-> "none"]
NoResult == [returned |-> FALSE, success |-> FALSE, download_url |-> 0]
NoFiles == [i \in Ids |-> "none"]

Procs == 1..MaxProcs
NoEarlier == [status |-> 0, url |-> 0, files |-> NoFiles]
IdleInv == [pc |-> "idle", attempt |-> 0, retry_delay |-> 0, gc_attempt |-> 0,
            gc_retry_delay |-> 0, result |-> 0, status |-> 0, url |-> 0]
NoDisk == [i \in Ids |-> [writers |-> {}, last |-> 0]]

\* one call of payment_success, alone
SingleInvocation ==
    /\ invocation = "first"
    /\ earlier = NoEarlier
    /\ inv = [p \in Procs |-> IdleInv]
    /\ disk = NoDisk

----------------------------------------------------------------------------
(* Helpers of the retry loops *)

\* mutant: the elapsed time compared with the per-call timeout (30)
BudgetExceeded_WrongLimit(now) == now > GenTimeout

\* mutant: >= in place of >
BudgetExceeded_GE(now) == now >= timeout_limit

\* line 138: time.time() - start_time > timeout_limit
BudgetExceeded(now) == now > timeout_limit

\* lines 153, 163, 275: attempt < max_retries - 1
RetriesRemain(att, max) == att < max - 1

\* the events of log, by kind
Event(ev, id) == [ev |-> ev, att |-> attempt, id |-> id]
GenEvents == SelectSeq(log, LAMBDA e : e.ev \in {"gen_ok", "gen_fail"})
RenderEvents == SelectSeq(log, LAMBDA e : e.ev \in {"render_ok", "render_fail"})
Count(ev) == Len(SelectSeq(log, LAMBDA e : e.ev = ev))
GenCalls == Len(GenEvents)
RenderCalls == Len(RenderEvents)

\* a response of payment_success: return jsonify(...), code
Respond(code, b) ==
    /\ status' = code
    /\ body' = b
    /\ pc' = "done"

----------------------------------------------------------------------------
(* payment_success *)

WorkflowStart ==
    /\ pc = "start"
    /\ retrieves = 0
    /\ session = "none"
    /\ attempt = 0
    /\ retry_delay = 0
    /\ gc_attempt = 0
    /\ gc_retry_delay = 0
    /\ elapsed = 0
    /\ lastCheck = 0
    /\ log = <<>>
    /\ sleeps = <<>>
    /\ files = NoFiles
    /\ document_result = NoResult
    /\ status = 0
    /\ body = NoBody

Init ==
    /\ ref \in Refs
    /\ WorkflowStart
    /\ SingleInvocation
    /\ text = <<>>
    /\ rpc = "idle"
    /\ paraIdx = 0
    /\ content = <<>>

\* lines 173-175: except Exception
OnUnexpectedError ==
    Respond(500, [kind |-> "error", url |-> 0, msg |-> "unexpected_error"])

\* mutant: the generic handler placed before the StripeError handler
OnStripeError_AsUnexpected == OnUnexpectedError

\* lines 170-172: except stripe.error.StripeError
OnStripeError ==
    Respond(400, [kind |-> "error", url |-> 0, msg |-> "payment_verification_failed"])

\* line 125: whether the provider hands the session back for this reference.
\* Only the existence of the session is looked at, never its payment state.
SessionReturned(r) == r.exists

\* line 125: session = stripe.checkout.Session.retrieve(session_id)
\* The provider raises for a reference it does not know, and may raise for any
\* reference (unreachable, rate limit); otherwise it returns the session.
Retrieve ==
    /\ pc = "start"
    /\ retrieves' = retrieves + 1
    /\ \/ /\ session' = "raised"
          /\ OnStripeError
       \/ /\ SessionReturned(ref)
          /\ session' = "returned"
          /\ pc' = "load"
          /\ UNCHANGED <<status, body>>
    /\ UNCHANGED <<ref, attempt, retry_delay, gc_attempt, gc_retry_delay, elapsed,
                   lastCheck, log, sleeps, files, document_result, rdVars, mvVars>>

\* lines 128-134: json.loads of the metadata, then the clock and the retry
\* parameters of the outer loop
LoadFormData ==
    /\ pc = "load"
    /\ IF ref.form_data = "malformed"
         THEN /\ OnUnexpectedError
              /\ UNCHANGED <<elapsed, attempt, retry_delay>>
         ELSE /\ elapsed' = 0
              /\ attempt' = 0
              /\ retry_delay' = outer_retry_delay
              /\ pc' = "check"
              /\ UNCHANGED <<status, body>>
    /\ UNCHANGED <<ref, retrieves, session, gc_attempt, gc_retry_delay, lastCheck, log, sleeps,
                   files, document_result, rdVars, mvVars>>

\* the clock as read at line 138, d after the previous statement
ClockRead(d) == elapsed + d

\* the time between the previous statement and the reading of line 138: up to
\* MaxStall after line 130; the later readings follow the sleep of line 164,
\* and the time the attempt took is in the durations of its calls
Stalls(att) == IF att = 0 THEN 0..MaxStall ELSE {0}

\* mutant: the inner loop's counter and delay are set up once, before the outer
\* loop, and carried from one outer attempt to the next
CheckBudget_NoRestart ==
    /\ pc = "check"
    /\ \E d \in Stalls(attempt) :
         /\ elapsed' = ClockRead(d)
         /\ lastCheck' = ClockRead(d)
         /\ IF BudgetExceeded(ClockRead(d))
              THEN /\ Respond(202, [kind |-> "processing", url |-> 0,
                                    msg |-> "still_being_generated"])
                   /\ UNCHANGED <<gc_attempt, gc_retry_delay>>
              ELSE /\ gc_attempt' = (IF attempt = 0 THEN 0 ELSE gc_attempt)
                   /\ gc_retry_delay' =
                        (IF attempt = 0 THEN gc_retry_delay0 ELSE gc_retry_delay)
                   /\ pc' = "call"
                   /\ UNCHANGED <<status, body>>
    /\ UNCHANGED <<ref, retrieves, session, attempt, retry_delay, log, sleeps, files,
                   document_result, rdVars, mvVars>>

\* lines 136-145: the head of an outer attempt: the budget check, then the call
\* of generate_consultation up to its loop (lines 254-257)
CheckBudget ==
    /\ pc = "check"
    /\ \E d \in Stalls(attempt) :
         /\ elapsed' = ClockRead(d)
         /\ lastCheck' = ClockRead(d)
         /\ IF BudgetExceeded(ClockRead(d))
              THEN /\ Respond(202, [kind |-> "processing", url |-> 0,
                                    msg |-> "still_being_generated"])
                   /\ UNCHANGED <<gc_attempt, gc_retry_delay>>
              ELSE /\ gc_attempt' = 0
                   /\ gc_retry_delay' = gc_retry_delay0
                   /\ pc' = "call"
                   /\ UNCHANGED <<status, body>>
    /\ UNCHANGED <<ref, retrieves, session, attempt, retry_delay, log, sleeps, files,
                   document_result, rdVars, mvVars>>

\* lines 259-270: client.chat.completions.create returned text
GenSucceeds(d) ==
    /\ elapsed' = elapsed + d
    /\ log' = Append(log, Event("gen_ok", 0))
    /\ pc' = "render"
    /\ UNCHANGED <<gc_attempt, gc_retry_delay, sleeps>>

\* mutant: the first failure raises at once, the inner loop never retries
GenFails_NoRetry(d) ==
    /\ log' = Append(log, Event("gen_fail", 0))
    /\ elapsed' = elapsed + d
    /\ pc' = "except"
    /\ UNCHANGED <<gc_attempt, gc_retry_delay, sleeps>>

\* mutant: the delay is not doubled after the sleep
GenFails_NoBackoff(d) ==
    /\ log' = Append(log, Event("gen_fail", 0))
    /\ IF RetriesRemain(gc_attempt, gc_max_retries)
         THEN /\ elapsed' = elapsed + d + gc_retry_delay
              /\ sleeps' = Append(sleeps, [layer |-> "inner", att |-> attempt,
                                           d |-> gc_retry_delay])
              /\ gc_attempt' = gc_attempt + 1
              /\ pc' = "call"
              /\ UNCHANGED gc_retry_delay
         ELSE /\ elapsed' = elapsed + d
              /\ pc' = "except"
              /\ UNCHANGED <<gc_attempt, gc_retry_delay, sleeps>>

\* lines 272-280: client.chat.completions.create raised
GenFails(d) ==
    /\ log' = Append(log, Event("gen_fail", 0))
    /\ IF RetriesRemain(gc_attempt, gc_max_retries)
         THEN /\ elapsed' = elapsed + d + gc_retry_delay
              /\ sleeps' = Append(sleeps, [layer |-> "inner", att |-> attempt,
                                           d |-> gc_retry_delay])
              /\ gc_retry_delay' = gc_retry_delay * 2
              /\ gc_attempt' = gc_attempt + 1
              /\ pc' = "call"
         ELSE \* raise, re-raised at lines 295-297
              /\ elapsed' = elapsed + d
              /\ pc' = "except"
              /\ UNCHANGED <<gc_attempt, gc_retry_delay, sleeps>>

\* lines 257-280: one inner attempt
GenCall ==
    /\ pc = "call"
    /\ \E d \in GenTimes :
         \/ GenSucceeds(d)
         \/ GenFails(d)
    /\ UNCHANGED <<ref, retrieves, session, attempt, retry_delay, lastCheck, files,
                   document_result, status, body, rdVars, mvVars>>

\* lines 288-293: create_pdf wrote the artifact u; the result is returned
RenderSucceeds(u) ==
    /\ files' = [files EXCEPT ![u] = "complete"]
    /\ log' = Append(log, Event("render_ok", u))
    /\ document_result' = [returned |-> TRUE, success |-> TRUE, download_url |-> u]
    /\ pc' = "result"

\* mutant: the renderer's exception is swallowed and the result returned anyway
RenderFails_Swallowed(u) ==
    /\ files' \in {files, [files EXCEPT ![u] = "partial"]}
    /\ log' = Append(log, Event("render_fail", u))
    /\ document_result' = [returned |-> TRUE, success |-> TRUE, download_url |-> u]
    /\ pc' = "result"

\* mutant: the handler of line 295 returns an error result instead of raising
RenderFails_ReturnsError(u) ==
    /\ files' \in {files, [files EXCEPT ![u] = "partial"]}
    /\ log' = Append(log, Event("render_fail", u))
    /\ document_result' = [returned |-> TRUE, success |-> FALSE, download_url |-> 0]
    /\ pc' = "result"

\* lines 288, 295-297: create_pdf raised; the file was not written, or was left
\* unfinished
RenderFails(u) ==
    /\ files' \in {files, [files EXCEPT ![u] = "partial"]}
    /\ log' = Append(log, Event("render_fail", u))
    /\ pc' = "except"
    /\ UNCHANGED document_result

\* lines 282-297: the artifact name, the renderer, the result
Render ==
    /\ pc = "render"
    /\ \E u \in Ids, d \in 0..MaxRenderTime :
         /\ elapsed' = elapsed + d
         /\ \/ RenderSucceeds(u)
            \/ RenderFails(u)
    /\ UNCHANGED <<ref, retrieves, session, attempt, retry_delay, gc_attempt, gc_retry_delay,
                   lastCheck, sleeps, status, body, rdVars, mvVars>>

\* the for loop of line 136 after an iteration that did not return
LoopNext(att) == IF att + 1 < max_retries THEN "check" ELSE "fell_through"

\* mutant: 500 on the first failed outer attempt, the outer loop never retries
RetryOrFail_NoRetry(msg) ==
    /\ Respond(500, [kind |-> "error", url |-> 0, msg |-> msg])
    /\ UNCHANGED <<elapsed, sleeps, retry_delay, attempt>>

\* mutant: the branch that returns 500 is missing, every failure goes round again
RetryOrFail_AlwaysRetry(msg) ==
    /\ elapsed' = elapsed + retry_delay
    /\ sleeps' = Append(sleeps, [layer |-> "outer", att |-> attempt,
                                 d |-> retry_delay])
    /\ retry_delay' = retry_delay * 2
    /\ attempt' = attempt + 1
    /\ pc' = LoopNext(attempt)
    /\ UNCHANGED <<status, body>>

\* lines 153-158 and 163-168: sleep and go round again, or give up with 500
RetryOrFail(msg) ==
    IF RetriesRemain(attempt, max_retries)
      THEN /\ elapsed' = elapsed + retry_delay
           /\ sleeps' = Append(sleeps, [layer |-> "outer", att |-> attempt,
                                        d |-> retry_delay])
           /\ retry_delay' = retry_delay * 2
           /\ attempt' = attempt + 1
           /\ pc' = LoopNext(attempt)
           /\ UNCHANGED <<status, body>>
      ELSE /\ Respond(500, [kind |-> "error", url |-> 0, msg |-> msg])
           /\ UNCHANGED <<elapsed, sleeps, retry_delay, attempt>>

\* mutant: the test of line 147 inverted
HandleResult_Inverted ==
    /\ pc = "result"
    /\ IF ~document_result.success
         THEN /\ Respond(200, [kind |-> "download",
                               url |-> document_result.download_url, msg |-> "none"])
              /\ UNCHANGED <<elapsed, sleeps, retry_delay, attempt>>
         ELSE RetryOrFail("failed_to_generate")
    /\ UNCHANGED <<ref, retrieves, session, gc_attempt, gc_retry_delay, lastCheck, log,
                   files, document_result, rdVars, mvVars>>

\* lines 147-158: generate_consultation returned
HandleResult ==
    /\ pc = "result"
    /\ IF document_result.success
         THEN /\ Respond(200, [kind |-> "download",
                               url |-> document_result.download_url, msg |-> "none"])
              /\ UNCHANGED <<elapsed, sleeps, retry_delay, attempt>>
         ELSE RetryOrFail("failed_to_generate")
    /\ UNCHANGED <<ref, retrieves, session, gc_attempt, gc_retry_delay, lastCheck, log, files,
                   document_result, rdVars, mvVars>>

\* lines 160-168: generate_consultation raised
HandleException ==
    /\ pc = "except"
    /\ RetryOrFail("generation_failed")
    /\ UNCHANGED <<ref, retrieves, session, gc_attempt, gc_retry_delay, lastCheck, log, files,
                   document_result, rdVars, mvVars>>

Next ==
    \/ Retrieve
    \/ LoadFormData
    \/ CheckBudget
    \/ GenCall
    \/ Render
    \/ HandleResult
    \/ HandleException

Spec == Init /\ [][Next]_vars

\* every external call returns or fails, and the worker goes on to its next
\* statement
FairSpec == Spec /\ WF_vars(Next)

Done == pc = "done"

----------------------------------------------------------------------------
(* create_pdf: strings are sequences of characters *)

\* number of chunks a text is made of
MaxChunks == 3

LF == "\n"
HASH == "#"
\* U+2022, the bullet glyph
BULLET == "U+2022"
\* the three characters U+00E2 U+20AC U+00A2 of the literal of line 364
Line364Literal == <<"U+00E2", "U+20AC", "U+00A2">>

Whitespace == {" ", "\t"}
UpperLetters == {"A", "B", "S", "I", "G", "N", "D", "T", "E"}
LowerLetters == {"a", "b", "s", "i", "g", "n", "d", "t", "e", "U+00E2"}

\* the chunks texts are built from
Chunks ==
    { <<LF>>, <<" ">>, <<"\t">>, <<HASH>>, <<"-">>, <<"*">>, <<BULLET>>, Line364Literal,
      <<"s", "i", "g", "n">>, <<"S", "I", "G", "N">>, <<"D", "a", "t", "e", ":">>,
      <<"a", "b">>, <<"A", "B">> }

RECURSIVE Concat(_)
Concat(ss) == IF ss = <<>> THEN <<>> ELSE Head(ss) \o Concat(Tail(ss))

Texts == { Concat(cs) : cs \in UNION { [1..n -> Chunks] : n \in 0..MaxChunks } }

\* str.lower() of one character
LowerChar(c) ==
    CASE c = "A" -> "a" [] c = "B" -> "b" [] c = "S" -> "s" [] c = "I" -> "i"
      [] c = "G" -> "g" [] c = "N" -> "n" [] c = "D" -> "d" [] c = "T" -> "t"
      [] c = "E" -> "e" [] OTHER -> c

\* str.lower()
Lower(str) == [i \in 1..Len(str) |-> LowerChar(str[i])]

\* str.isupper(): at least one cased character and no lowercase one
IsUpper(str) ==
    /\ \E i \in 1..Len(str) : str[i] \in UpperLetters
    /\ \A i \in 1..Len(str) : str[i] \notin LowerLetters

\* str.strip()
RECURSIVE LStrip(_)
LStrip(str) ==
    IF str # <<>> /\ Head(str) \in Whitespace THEN LStrip(Tail(str)) ELSE str

RECURSIVE RStrip(_)
RStrip(str) ==
    IF str # <<>> /\ str[Len(str)] \in Whitespace
      THEN RStrip(SubSeq(str, 1, Len(str) - 1))
      ELSE str

Strip(str) == RStrip(LStrip(str))

\* str.startswith(prefix)
StartsWith(str, prefix) ==
    /\ Len(prefix) <= Len(str)
    /\ SubSeq(str, 1, Len(prefix)) = prefix

\* sub in str
Contains(str, sub) ==
    \E i \in 1..(Len(str) - Len(sub) + 1) : SubSeq(str, i, i + Len(sub) - 1) = sub

\* str.replace(c, '')
Remove(str, c) == SelectSeq(str, LAMBDA x : x # c)

\* str.split(sep) for a one-character separator
RECURSIVE Split(_, _)
Split(str, sep) ==
    IF \E i \in 1..Len(str) : str[i] = sep
      THEN LET i == CHOOSE k \in 1..Len(str) :
                      /\ str[k] = sep
                      /\ \A j \in 1..(k - 1) : str[j] # sep
           IN  <<SubSeq(str, 1, i - 1)>> \o Split(SubSeq(str, i + 1, Len(str)), sep)
      ELSE <<str>>

\* line 356
paragraphs == Split(text, LF)

Paragraph(txt, style) == [type |-> "Paragraph", style |-> style, text |-> txt, height |-> 0]
Spacer(h) == [type |-> "Spacer", style |-> "none", text |-> <<>>, height |-> h]

\* lines 342-354: the title, the business name and the date
TitleBlocks ==
    << Paragraph(<<"document_type">>, "Title"), Paragraph(<<"business_name">>, "Title"),
       Spacer(20), Paragraph(<<"date">>, "Date"), Spacer(20) >>

\* line 364: the bullet test
IsBulletLine(str) ==
    \/ StartsWith(str, Line364Literal)
    \/ StartsWith(str, <<"-">>)
    \/ StartsWith(str, <<"*">>)

\* line 374: the signature test
IsSignatureLine(para) ==
    \/ Contains(Lower(para), <<"s", "i", "g", "n", "a", "t", "u", "r", "e">>)
    \/ Contains(Lower(para), <<"s", "i", "g", "n">>)
    \/ Contains(Lower(para), <<"d", "a", "t", "e", ":">>)

\* lines 359-383: the paragraph appended for a non-blank line
ParaBlock(para) ==
    IF StartsWith(Strip(para), <<HASH>>)
      THEN Paragraph(Strip(Remove(para, HASH)), "Header")
    ELSE IF IsUpper(Strip(para)) /\ Len(Strip(para)) > 3
      THEN Paragraph(Strip(para), "Header")
    ELSE IF IsBulletLine(Strip(para))
      THEN Paragraph(Strip(para), "Bullet")
    ELSE IF IsSignatureLine(para)
      THEN Paragraph(para, "Signature")
    ELSE Paragraph(para, "Normal")

\* lines 385-388: the spacer appended after it
ParaSpacer(para) ==
    IF StartsWith(Strip(para), <<HASH>>) \/ IsUpper(Strip(para))
      THEN Spacer(10)
      ELSE Spacer(6)

\* mutant: the test of line 358 guards the paragraph only, a blank line still
\* gets its spacer
ParaFlowables_SpacerForBlank(para) ==
    IF Strip(para) # <<>>
      THEN <<ParaBlock(para), ParaSpacer(para)>>
      ELSE <<ParaSpacer(para)>>

\* lines 358-388: what one line adds to content
ParaFlowables(para) ==
    IF Strip(para) # <<>>
      THEN <<ParaBlock(para), ParaSpacer(para)>>
      ELSE <<>>

\* create_pdf is called with a text: lines 299-356
InitRender ==
    /\ ref = [exists |-> TRUE, paid |-> TRUE, state |-> "complete", form_data |-> "json"]
    /\ WorkflowStart
    /\ SingleInvocation
    /\ text \in Texts
    /\ rpc = "loop"
    /\ paraIdx = 1
    /\ content = TitleBlocks

\* lines 357-388: one iteration of the loop over paragraphs
RenderPara ==
    /\ rpc = "loop"
    /\ paraIdx <= Len(paragraphs)
    /\ content' = content \o ParaFlowables(paragraphs[paraIdx])
    /\ paraIdx' = paraIdx + 1
    /\ UNCHANGED <<text, rpc, wfVars, mvVars>>

\* line 390: doc.build(content) writes the file or raises
Build ==
    /\ rpc = "loop"
    /\ paraIdx > Len(paragraphs)
    /\ rpc' \in {"built", "raised"}
    /\ UNCHANGED <<text, paraIdx, content, wfVars, mvVars>>

NextRender ==
    \/ RenderPara
    \/ Build

SpecRender == InitRender /\ [][NextRender]_vars

----------------------------------------------------------------------------
(* Claims about payment_success and generate_consultation (Spec) *)

LastEvent == log[Len(log)]

\* the invocation was given the reference of a completed payment
PaidInvocation == ref.paid /\ ref.state = "complete"
FromGeneration == status \in {200, 202} \/ (status = 500 /\ body.msg # "unexpected_error")

\* C1: the text-generation capability and the renderer are invoked, and an
\* artifact is written, only when the payment reference resolves to a session
\* whose payment is completed; for a session that exists but is not paid (open,
\* expired) no generation call is made and no artifact is produced.
C1_GenerationOnlyForCompletedPayment ==
    (log # <<>> \/ files # NoFiles) => (ref.paid /\ ref.state = "complete")

\* C2: an invocation that ends in Success (200) has produced exactly one rendered
\* document, and the returned download reference names that document, a file the
\* renderer finished writing in this invocation; an invocation that ends in
\* StillProcessing (202) or Failed (500) has produced no rendered document.
C2_OneDocumentPerSuccess ==
    Done =>
      /\ status = 200 =>
           /\ Count("render_ok") = 1
           /\ body.kind = "download"
           /\ \E i \in 1..Len(log) :
                /\ log[i].ev = "render_ok"
                /\ log[i].id = body.url
           /\ files[body.url] = "complete"
      /\ status \in {202, 500} =>
           /\ Count("render_ok") = 0
           /\ \A u \in Ids : files[u] # "complete"

\* C2 witness: a Success reached after an earlier renderer failure
C2_Witness ==
    /\ PaidInvocation
    /\ Done /\ status = 200 /\ Count("render_fail") = 1 /\ Count("gen_fail") > 0

\* C3: at the head of each outer attempt the elapsed time is compared with the
\* budget (25); if it exceeds the budget the invocation returns 202 at once and
\* the text-generation capability is invoked neither in that attempt nor
\* afterwards, and if it does not the attempt goes on to the generation call. A
\* budget exceeded before the first attempt means no generation call at all.
C3_BudgetCheckedBeforeEachAttempt ==
    [][ /\ (pc = "check" /\ lastCheck' > timeout_limit) =>
              (status' = 202 /\ pc' = "done" /\ log' = log)
        /\ (pc = "check" /\ lastCheck' <= timeout_limit) =>
              (status' = 0 /\ pc' = "call")
        /\ status' = 202 => \A i \in 1..Len(log') : log'[i].att < attempt'
        /\ status = 202 => log' = log
      ]_vars

\* C3 witness: the budget is exceeded at the check before the first attempt
C3_Witness ==
    /\ PaidInvocation
    /\ Done /\ status = 202 /\ attempt = 0 /\ lastCheck > timeout_limit /\ log = <<>>

\* the budget is exceeded at the check before the second attempt
C3_WitnessSecondAttempt ==
    /\ PaidInvocation
    /\ Done /\ status = 202 /\ attempt = 1 /\ GenCalls = gc_max_retries

AllGenerationCallsFailed == GenCalls > 0 /\ Count("gen_ok") = 0

\* C4 as claimed (for a completed payment): if the text-generation capability
\* fails on every call made during the invocation, the invocation returns Failed
\* (500) and no artifact file is created.
C4_AllFailGivesFailed ==
    (PaidInvocation /\ Done /\ AllGenerationCallsFailed)
      => (status = 500 /\ files = NoFiles)

\* C4 amended: if the text-generation capability fails on every call made
\* during the invocation, no artifact file is created and the renderer is never
\* invoked; the invocation returns Failed (500) after 2 x 3 calls when the
\* budget check before the second outer attempt passes, and StillProcessing
\* (202) after 3 calls when the elapsed time exceeds the budget at that check.
C4_AllFailAmended ==
    (Done /\ AllGenerationCallsFailed) =>
      /\ files = NoFiles
      /\ RenderCalls = 0
      /\ \/ /\ status = 500
            /\ GenCalls = max_retries * gc_max_retries
            /\ lastCheck <= timeout_limit
         \/ /\ status = 202
            /\ GenCalls = gc_max_retries
            /\ lastCheck > timeout_limit

\* C4 witness: six failed calls, then 500
C4_Witness ==
    /\ PaidInvocation
    /\ Done /\ AllGenerationCallsFailed
    /\ status = 500 /\ GenCalls = max_retries * gc_max_retries

\* C5 as claimed (for a completed payment): no invocation whose elapsed time has
\* exceeded the budget (25) ends in Success or Failed; its outcome is
\* StillProcessing.
C5_BudgetExhaustedIsStillProcessing ==
    (PaidInvocation /\ Done /\ FromGeneration /\ elapsed > timeout_limit)
      => status = 202

\* C5 amended: the budget is looked at only at the head of each outer attempt:
\* the outcome is StillProcessing exactly when the elapsed time read there
\* exceeds the budget; an invocation that ends in Success or Failed read an
\* elapsed time within the budget at the head of its last attempt, whatever time
\* the attempt itself then took.
C5_BudgetDecidedAtAttemptHead ==
    (Done /\ FromGeneration) => (status = 202 <=> lastCheck > timeout_limit)

\* C5 witness: a Success delivered after the budget was exhausted
C5_Witness ==
    /\ PaidInvocation
    /\ Done /\ status = 200 /\ elapsed > timeout_limit /\ lastCheck <= timeout_limit

\* the text-generation capability fails exactly gc_max_retries - 1 times, then
\* succeeds (on every later call)
FailsTwiceThenSucceeds ==
    /\ GenCalls >= gc_max_retries
    /\ \A i \in 1..GenCalls :
         GenEvents[i].ev = (IF i < gc_max_retries THEN "gen_fail" ELSE "gen_ok")

SuccessAfterThreeCalls ==
    status = 200 /\ RenderCalls = 1 /\ GenCalls = gc_max_retries

C7_RenderFailureIsFatal ==
    PaidInvocation =>
      /\ \A i \in 1..Len(log) : log[i].ev = "render_fail" => i = Len(log)
      /\ (Done /\ Count("render_fail") > 0) => status = 500

\* C8: a payment-verification failure is never retried: the session is retrieved
\* at most once per invocation, the response is 400, and neither the
\* text-generation capability nor the renderer is invoked.
C8_PaymentFailureNotRetried ==
    /\ retrieves <= 1
    /\ session = "raised" =>
         /\ Done /\ status = 400 /\ body.kind = "error"
         /\ retrieves = 1
         /\ log = <<>>
         /\ files = NoFiles

\* C8 witness: the provider raised for a session that exists and is paid
C8_Witness ==
    Done /\ session = "raised" /\ ref.paid

\* C9: each outcome has exactly one response code: 200 with a download reference
\* and only when a document was rendered; 202 with a retry-later message and only
\* from the time-budget check; 500 with error detail and only after the last
\* outer attempt failed or an unexpected non-payment error.
C9_OutcomeToResponse ==
    Done =>
      /\ status \in {200, 202, 400, 500}
      /\ status = 200 <=> body.kind = "download"
      /\ status = 202 <=> body.kind = "processing"
      /\ status \in {400, 500} <=> body.kind = "error"
      /\ status = 200 =>
           /\ log # <<>>
           /\ LastEvent.ev = "render_ok"
           /\ body.url = LastEvent.id
      /\ status = 202 =>
           /\ lastCheck > timeout_limit
           /\ elapsed = lastCheck
           /\ \A i \in 1..Len(log) : log[i].att < attempt
      /\ status = 500 =>
           \/ /\ body.msg = "unexpected_error"
              /\ ref.form_data = "malformed"
              /\ log = <<>>
           \/ /\ body.msg = "generation_failed"
              /\ attempt = max_retries - 1
              /\ log # <<>>
              /\ LastEvent.ev \in {"gen_fail", "render_fail"}
              /\ LastEvent.att = attempt

\* C9 witness: 500 after the second outer attempt failed in the renderer
C9_Witness ==
    /\ PaidInvocation
    /\ Done /\ status = 500 /\ body.msg = "generation_failed"
    /\ LastEvent.ev = "render_fail"

----------------------------------------------------------------------------
(* Claims about create_pdf (SpecRender) *)

\* the lines the loop has been through, and the flowables appended for them
LinesDone == SubSeq(paragraphs, 1, paraIdx - 1)
Emitted == SubSeq(content, Len(TitleBlocks) + 1, Len(content))
EmittedStyles ==
    LET ps == SelectSeq(Emitted, LAMBDA f : f.type = "Paragraph")
    IN  [i \in 1..Len(ps) |-> ps[i].style]

\* the ordered rule list of the line classifier, first match wins
HasBulletMarker(str) ==
    \/ StartsWith(str, <<"-">>)
    \/ StartsWith(str, <<"*">>)
    \/ StartsWith(str, <<BULLET>>)

MentionsSignature(line) ==
    \E w \in { <<"s", "i", "g", "n", "a", "t", "u", "r", "e">>, <<"s", "i", "g", "n">>,
               <<"d", "a", "t", "e", ":">> } : Contains(Lower(line), w)

RoleByRules(line) ==
    CASE Strip(line) = <<>> -> "Blank"
      [] Strip(line) # <<>> /\ StartsWith(Strip(line), <<HASH>>) -> "Header"
      [] OTHER ->
           IF IsUpper(Strip(line)) /\ Len(Strip(line)) > 3 THEN "UppercaseHeader"
           ELSE IF HasBulletMarker(Strip(line)) THEN "Bullet"
           ELSE IF MentionsSignature(line) THEN "Signature"
           ELSE "Body"

StyleOfRole(role) ==
    CASE role \in {"Header", "UppercaseHeader"} -> "Header"
      [] role = "Bullet" -> "Bullet"
      [] role = "Signature" -> "Signature"
      [] role = "Body" -> "Normal"

ExpectedStyles ==
    LET ls == SelectSeq(LinesDone, LAMBDA l : RoleByRules(l) # "Blank")
    IN  [i \in 1..Len(ls) |-> StyleOfRole(RoleByRules(ls[i]))]

\* C10: for every line, the style create_pdf chooses is the one of the role the
\* ordered rule list gives it: Blank, Header ('#' prefix after trimming),
\* UppercaseHeader (all uppercase, longer than 3), Bullet ('-', '*' or the bullet
\* glyph as prefix), Signature (contains 'signature', 'sign' or 'date:'), Body,
\* first match wins; a line starting with '#' is always Header.
C10_StyleFollowsRuleOrder ==
    /\ EmittedStyles = ExpectedStyles
    /\ \A i \in 1..Len(LinesDone) :
         StartsWith(Strip(LinesDone[i]), <<HASH>>) => RoleByRules(LinesDone[i]) = "Header"

UsesGlyph(line) ==
    \E i \in 1..Len(line) : line[i] \in {BULLET, "U+00E2", "U+20AC", "U+00A2"}

\* C10, the part of it the code keeps: on texts that hold neither the bullet
\* glyph nor the characters of the literal of line 364, the style chosen is the
\* one of the ordered rule list.
C10_RuleOrderWithoutGlyphs ==
    (\A i \in 1..Len(LinesDone) : ~UsesGlyph(LinesDone[i]))
      => EmittedStyles = ExpectedStyles

NonBlankDone == SelectSeq(LinesDone, LAMBDA l : Strip(l) # <<>>)
EmittedParagraphs == SelectSeq(Emitted, LAMBDA f : f.type = "Paragraph")
EmittedSpacers == SelectSeq(Emitted, LAMBDA f : f.type = "Spacer")

\* a string without its leading run of '#'
RECURSIVE DropLeadingHashes(_)
DropLeadingHashes(str) ==
    IF str # <<>> /\ Head(str) = HASH THEN DropLeadingHashes(Tail(str)) ELSE str

\* the line with its leading '#' characters and the surrounding whitespace
\* removed, nothing else changed
HeaderTextByRule(line) == Strip(DropLeadingHashes(Strip(line)))

IsHeaderLine(line) == StartsWith(Strip(line), <<HASH>>)

\* C11: for a Header line the rendered text is the line with all leading '#'
\* characters and the surrounding whitespace removed and nothing else changed:
\* '#' characters after the leading run are preserved.
C11_HeaderTextKeepsInnerHashes ==
    \A k \in 1..Len(NonBlankDone) :
      IsHeaderLine(NonBlankDone[k]) =>
        /\ k <= Len(EmittedParagraphs)
        /\ EmittedParagraphs[k].text = HeaderTextByRule(NonBlankDone[k])

\* C11, the part of it the code keeps: a Header line with no '#' after its
\* leading run is rendered as the rule says.
C11_HeaderTextWithoutInnerHashes ==
    \A k \in 1..Len(NonBlankDone) :
      (/\ IsHeaderLine(NonBlankDone[k])
       /\ ~Contains(DropLeadingHashes(Strip(NonBlankDone[k])), <<HASH>>)) =>
        /\ k <= Len(EmittedParagraphs)
        /\ EmittedParagraphs[k].text = HeaderTextByRule(NonBlankDone[k])

LargeSpacer == 10
SmallSpacer == 6

\* C12: the spacer after a rendered line is the larger one (10) exactly when the
\* line was classified Header or UppercaseHeader (header style), and the smaller
\* one (6) after every other non-blank line, all-uppercase lines of 3 characters
\* or fewer included.
C12_LargeSpacerOnlyAfterHeaders ==
    /\ Len(EmittedSpacers) = Len(EmittedParagraphs)
    /\ \A k \in 1..Len(EmittedParagraphs) :
         EmittedSpacers[k].height =
           (IF EmittedParagraphs[k].style = "Header" THEN LargeSpacer ELSE SmallSpacer)

\* C12, the part of it the code keeps: the claim holds of every line that is not
\* an all-uppercase line of 3 characters or fewer.
C12_SpacerExceptShortUppercase ==
    /\ Len(EmittedSpacers) = Len(EmittedParagraphs)
    /\ Len(EmittedParagraphs) = Len(NonBlankDone)
    /\ \A k \in 1..Len(EmittedParagraphs) :
         ~(IsUpper(Strip(NonBlankDone[k])) /\ Len(Strip(NonBlankDone[k])) <= 3) =>
           EmittedSpacers[k].height =
             (IF EmittedParagraphs[k].style = "Header" THEN LargeSpacer ELSE SmallSpacer)

\* C13: after the title/date blocks the renderer has emitted, for the lines it
\* has been through and in their order, exactly one styled block followed by
\* exactly one spacer per non-blank line and nothing for an empty or
\* whitespace-only line: the blocks are as many as the non-blank lines.
C13_OneBlockAndSpacerPerNonBlankLine ==
    /\ SubSeq(content, 1, Len(TitleBlocks)) = TitleBlocks
    /\ Len(Emitted) = 2 * Len(NonBlankDone)
    /\ Len(EmittedParagraphs) = Len(NonBlankDone)
    /\ \A k \in 1..Len(NonBlankDone) :
         /\ Emitted[2 * k - 1].type = "Paragraph"
         /\ Emitted[2 * k - 1].style \in {"Header", "Bullet", "Signature", "Normal"}
         /\ Emitted[2 * k].type = "Spacer"
         /\ Strip(Emitted[2 * k - 1].text) = Strip(Remove(NonBlankDone[k], HASH))
              \/ Strip(Emitted[2 * k - 1].text) = Strip(NonBlankDone[k])

\* C13 witness: a built document of a text whose first line is whitespace only
\* and whose second line is not blank
C13_Witness ==
    /\ rpc = "built"
    /\ Len(paragraphs) = 2
    /\ paragraphs[1] # <<>> /\ Strip(paragraphs[1]) = <<>>
    /\ Strip(paragraphs[2]) # <<>>
    /\ Len(Emitted) = 2

----------------------------------------------------------------------------
(* Claims about the two retry loops (Spec, FairSpec) *)

OuterAttempts == 0..(max_retries - 1)
EventsOf(a, evs) == SelectSeq(log, LAMBDA e : e.att = a /\ e.ev \in evs)
GenCallsOf(a) == Len(EventsOf(a, {"gen_ok", "gen_fail"}))
GenFailsOf(a) == Len(EventsOf(a, {"gen_fail"}))
RenderCallsOf(a) == Len(EventsOf(a, {"render_ok", "render_fail"}))

\* base doubled n times
RECURSIVE Doubled(_, _)
Doubled(base, n) == IF n = 0 THEN base ELSE 2 * Doubled(base, n - 1)

\* C14: the two retry loops are nested and independent: one outer attempt runs
\* up to 3 inner calls; exhausting the inner retries raises into the outer
\* handler and counts as one outer attempt; the inner attempt counter and inner
\* delay restart at each outer attempt. In one invocation there are at most 2
\* outer attempts, at most 6 generation calls and at most 2 renderer invocations.
C14_NestedIndependentLoops ==
    /\ attempt \in OuterAttempts
    /\ pc # "fell_through"
    /\ GenCalls <= max_retries * gc_max_retries
    /\ RenderCalls <= max_retries
    /\ \A a \in OuterAttempts :
         /\ GenCallsOf(a) <= gc_max_retries
         /\ RenderCallsOf(a) <= 1
         /\ a > attempt => GenCallsOf(a) + RenderCallsOf(a) = 0
    /\ \A i \in 1..Len(log) : log[i].att \in OuterAttempts
    /\ pc = "call" =>
         /\ gc_attempt < gc_max_retries
         /\ gc_attempt = GenCallsOf(attempt)
         /\ gc_attempt = GenFailsOf(attempt)
         /\ gc_retry_delay = Doubled(gc_retry_delay0, gc_attempt)
    /\ (pc = "except" /\ LastEvent.ev = "gen_fail") =>
         /\ LastEvent.att = attempt
         /\ GenFailsOf(attempt) = gc_max_retries

\* C14 witness: two outer attempts of three calls each, the third of each
\* succeeding and the renderer failing
C14_Witness ==
    /\ PaidInvocation /\ Done
    /\ GenCalls = max_retries * gc_max_retries
    /\ RenderCalls = max_retries

InnerSleeps(a) == SelectSeq(sleeps, LAMBDA x : x.layer = "inner" /\ x.att = a)
OuterSleeps == SelectSeq(sleeps, LAMBDA x : x.layer = "outer")

RECURSIVE TotalSlept(_)
TotalSlept(sl) == IF sl = <<>> THEN 0 ELSE Head(sl).d + TotalSlept(Tail(sl))

\* C15: in each loop a failed attempt is followed by a sleep only if attempts
\* remain; the sleep lasts the current retry_delay, which is doubled after it.
\* Within one outer attempt the inner sleeps are 2 then 4, with none after the
\* third failed call; the outer loop sleeps once, for 1, after its first failed
\* attempt and not after its last; one invocation sleeps 13 at most in total.
C15_Backoff ==
    /\ \A a \in OuterAttempts :
         /\ Len(InnerSleeps(a)) <= gc_max_retries - 1
         /\ \A i \in 1..Len(InnerSleeps(a)) :
              InnerSleeps(a)[i].d = Doubled(gc_retry_delay0, i - 1)
         /\ Len(InnerSleeps(a)) =
              (IF GenFailsOf(a) < gc_max_retries THEN GenFailsOf(a)
                                                 ELSE gc_max_retries - 1)
    /\ Len(OuterSleeps) <= max_retries - 1
    /\ \A i \in 1..Len(OuterSleeps) :
         /\ OuterSleeps[i].d = Doubled(outer_retry_delay, i - 1)
         /\ OuterSleeps[i].att = i - 1
    /\ pc # "start" => Len(OuterSleeps) = attempt
    /\ TotalSlept(sleeps) <= 13
    /\ pc \notin {"start", "load"} => elapsed >= TotalSlept(sleeps)

\* C15 witness: six failed calls, the sleeps 2, 4, 1, 2, 4
C15_Witness ==
    /\ PaidInvocation /\ Done /\ status = 500
    /\ TotalSlept(sleeps) = 13
    /\ Len(sleeps) = 5

ResponseCodes == {200, 202, 400, 500}

\* C17: every invocation terminates with exactly one response, given that every
\* external call returns or fails: the outer loop never falls through without a
\* response, and the response is one of 200, 202, 400, 500.
C17_TerminatesWithOneResponse ==
    /\ <>Done
    /\ [](pc # "fell_through")
    /\ [](Done <=> status \in ResponseCodes)
    /\ [](status \in ResponseCodes \cup {0})
    /\ [][status # 0 => (status' = status /\ body' = body)]_vars

\* C17 witness: an invocation that went through both outer attempts and answered
C17_Witness ==
    PaidInvocation /\ Done /\ attempt = max_retries - 1 /\ status \in ResponseCodes

\* C19: generate_consultation never returns a result without success: it returns
\* {success: True, download_url} after the renderer completed, or raises; the
\* branch of lines 149-158 (its sleep, its doubling, its 500) is never taken, and
\* every outer retry goes through the exception handler.
C19_ResultBranchUnreachable ==
    [][ /\ document_result'.returned =>
              /\ document_result'.success
              /\ LastEvent'.ev = "render_ok"
              /\ document_result'.download_url = LastEvent'.id
        /\ body'.msg # "failed_to_generate"
        /\ pc = "result" => (status' = 200 /\ sleeps' = sleeps /\ attempt' = attempt)
        /\ (attempt' # attempt \/ (pc # "load" /\ retry_delay' # retry_delay))
              => pc = "except"
        /\ Len(OuterSleeps') # Len(OuterSleeps) => pc = "except"
      ]_vars

\* C19 witness: a second outer attempt, entered through the exception handler,
\* whose result is returned
C19_Witness ==
    PaidInvocation /\ Done /\ status = 200 /\ attempt = 1 /\ document_result.returned

----------------------------------------------------------------------------
(* Concurrent invocations: every worker runs payment_success on locals of its
   own (inv[p]); nothing but the artifact directory is shared *)

\* the variables of the single invocation that the workers leave alone
soloVars == <<ref, pc, retrieves, session, attempt, retry_delay, gc_attempt,
              gc_retry_delay, elapsed, lastCheck, log, sleeps, document_result,
              status, body>>

\* the completed payment references with well-formed metadata
CompletedRefs == {r \in Refs : r.paid /\ r.state = "complete" /\ r.form_data = "json"}

\* what the clock of a worker can show at line 138: within the budget or past it
ClockReadings == {timeout_limit, timeout_limit + 1}

InitConcurrent ==
    /\ ref \in CompletedRefs
    /\ WorkflowStart
    /\ invocation = "first"
    /\ earlier = NoEarlier
    /\ inv = [p \in Procs |-> [IdleInv EXCEPT !.pc = "start"]]
    /\ disk = NoDisk
    /\ text = <<>>
    /\ rpc = "idle"
    /\ paraIdx = 0
    /\ content = <<>>

\* return jsonify(...), code of worker p
RespondOf(p, code, u) ==
    inv' = [inv EXCEPT ![p].pc = "done", ![p].status = code, ![p].url = u]

\* line 125 of worker p
RetrieveOf(p) ==
    /\ inv[p].pc = "start"
    /\ \/ RespondOf(p, 400, 0)
       \/ /\ SessionReturned(ref)
          /\ inv' = [inv EXCEPT ![p].pc = "load"]
    /\ UNCHANGED <<soloVars, files, disk, invocation, earlier, rdVars>>

\* lines 128-134 of worker p
LoadFormDataOf(p) ==
    /\ inv[p].pc = "load"
    /\ IF ref.form_data = "malformed"
         THEN RespondOf(p, 500, 0)
         ELSE inv' = [inv EXCEPT ![p].pc = "check", ![p].attempt = 0,
                                 ![p].retry_delay = outer_retry_delay]
    /\ UNCHANGED <<soloVars, files, disk, invocation, earlier, rdVars>>

\* lines 136-145 and 254-257 of worker p
CheckBudgetOf(p) ==
    /\ inv[p].pc = "check"
    /\ \E now \in ClockReadings :
         IF BudgetExceeded(now)
           THEN RespondOf(p, 202, 0)
           ELSE inv' = [inv EXCEPT ![p].pc = "call", ![p].gc_attempt = 0,
                                   ![p].gc_retry_delay = gc_retry_delay0]
    /\ UNCHANGED <<soloVars, files, disk, invocation, earlier, rdVars>>

\* lines 257-280 of worker p
GenCallOf(p) ==
    /\ inv[p].pc = "call"
    /\ \/ inv' = [inv EXCEPT ![p].pc = "render"]
       \/ IF RetriesRemain(inv[p].gc_attempt, gc_max_retries)
            THEN inv' = [inv EXCEPT ![p].gc_attempt = @ + 1,
                                    ![p].gc_retry_delay = @ * 2]
            ELSE inv' = [inv EXCEPT ![p].pc = "except"]
    /\ UNCHANGED <<soloVars, files, disk, invocation, earlier, rdVars>>

\* worker p opened the path of identifier u for writing (line 390)
WrittenBy(p, u) ==
    [disk EXCEPT ![u] = [writers |-> @.writers \cup {p}, last |-> p]]

\* lines 282-297 of worker p: the identifier is drawn (line 282) and the path
\* written (line 390) with no look at what the directory holds
RenderOf(p) ==
    /\ inv[p].pc = "render"
    /\ \E u \in Ids :
         \/ /\ files' = [files EXCEPT ![u] = "complete"]
            /\ disk' = WrittenBy(p, u)
            /\ inv' = [inv EXCEPT ![p].pc = "result", ![p].result = u]
         \/ /\ \/ UNCHANGED <<files, disk>>
               \/ /\ files' = [files EXCEPT ![u] = "partial"]
                  /\ disk' = WrittenBy(p, u)
            /\ inv' = [inv EXCEPT ![p].pc = "except"]
    /\ UNCHANGED <<soloVars, invocation, earlier, rdVars>>

\* lines 153-158 and 163-168 of worker p
RetryOrFailOf(p) ==
    IF RetriesRemain(inv[p].attempt, max_retries)
      THEN inv' = [inv EXCEPT ![p].pc = LoopNext(inv[p].attempt),
                              ![p].attempt = @ + 1,
                              ![p].retry_delay = @ * 2]
      ELSE RespondOf(p, 500, 0)

\* lines 147-148 of worker p: the result generate_consultation returned is a
\* success (lines 290-293)
HandleResultOf(p) ==
    /\ inv[p].pc = "result"
    /\ RespondOf(p, 200, inv[p].result)
    /\ UNCHANGED <<soloVars, files, disk, invocation, earlier, rdVars>>

\* lines 160-168 of worker p
HandleExceptionOf(p) ==
    /\ inv[p].pc = "except"
    /\ RetryOrFailOf(p)
    /\ UNCHANGED <<soloVars, files, disk, invocation, earlier, rdVars>>

NextConcurrent ==
    \E p \in Procs :
        \/ RetrieveOf(p)
        \/ LoadFormDataOf(p)
        \/ CheckBudgetOf(p)
        \/ GenCallOf(p)
        \/ RenderOf(p)
        \/ HandleResultOf(p)
        \/ HandleExceptionOf(p)

SpecConcurrent == InitConcurrent /\ [][NextConcurrent]_vars

\* the invocations that were answered with a download reference
Served == {p \in Procs : inv[p].pc = "done" /\ inv[p].status = 200}

\* C16: concurrent invocations are independent on the artifact namespace: no
\* two invocations write the same artifact path, and the download reference
\* an invocation was answered with names the finished document that this very
\* invocation rendered, which no other invocation has written over.
C16_NoSharedArtifactPath ==
    /\ \A u \in Ids : Cardinality(disk[u].writers) <= 1
    /\ \A p \in Served :
         /\ files[inv[p].url] = "complete"
         /\ disk[inv[p].url].last = p

\* the part of C16 that the code keeps: a served invocation whose path no
\* other invocation wrote holds its own finished document
C16_UnsharedPathKeepsOwnDocument ==
    \A p \in Served :
        disk[inv[p].url].writers = {p} =>
            /\ files[inv[p].url] = "complete"
            /\ disk[inv[p].url].last = p

\* two invocations served, each with a path of its own
C16_BothServedApart ==
    /\ Served = Procs
    /\ \A p \in Procs : disk[inv[p].url].writers = {p}

----------------------------------------------------------------------------
(* The same payment reference used again: payment_success is called a second
   time after the first call has answered *)

InitTwice ==
    /\ ref \in CompletedRefs
    /\ WorkflowStart
    /\ SingleInvocation
    /\ text = <<>>
    /\ rpc = "idle"
    /\ paraIdx = 0
    /\ content = <<>>

\* lines 119-120: the route is entered again with the same session_id. The
\* request, the response and the record of calls are those of the new call; the
\* payment record and the artifact directory are what the first call left. The
\* locals of the new call are unassigned until its own statements assign them:
\* whatever the first call left in them stays in place.
Reinvoke ==
    /\ pc = "done"
    /\ invocation = "first"
    /\ invocation' = "second"
    /\ earlier' = [status |-> status, url |-> body.url, files |-> files]
    /\ pc' = "start"
    /\ retrieves' = 0
    /\ session' = "none"
    /\ lastCheck' = 0
    /\ log' = <<>>
    /\ sleeps' = <<>>
    /\ status' = 0
    /\ body' = NoBody
    /\ UNCHANGED <<ref, files, attempt, retry_delay, gc_attempt, gc_retry_delay,
                   elapsed, document_result, inv, disk, rdVars>>

NextTwice ==
    \/ Next
    \/ Reinvoke

SpecTwice == InitTwice /\ [][NextTwice]_vars

\* the second call has passed line 134
PastSetup == pc \in {"check", "call", "render", "result", "except", "fell_through"}

\* what the claim says of the second call short of the identifier: the clock
\* starts at zero, the attempts and delays are fresh, generation runs again and
\* a served call has written a finished artifact
SecondStartsAfresh ==
    /\ (pc = "check" /\ attempt = 0) =>
          /\ elapsed = 0
          /\ retry_delay = outer_retry_delay
    /\ (PastSetup /\ attempt = 0) => lastCheck <= MaxStall
    /\ PastSetup =>
          /\ attempt <= max_retries
          /\ Len(OuterSleeps) = attempt
    /\ pc \in {"call", "render"} => Len(InnerSleeps(attempt)) = gc_attempt
    /\ GenCalls <= max_retries * gc_max_retries
    /\ (pc = "done" /\ status = 200) =>
          /\ retrieves = 1
          /\ Count("gen_ok") >= 1
          /\ Count("render_ok") = 1
          /\ LastEvent = [ev |-> "render_ok", att |-> attempt, id |-> body.url]
          /\ files[body.url] = "complete"

\* C18: the workflow keeps no state between invocations and leaves the payment
\* record as it is: a second invocation with the same completed payment
\* reference starts its clock at zero, has fresh attempts and delays, calls
\* generation again, and when it succeeds after a first success its artifact
\* has a new identifier, other than the one the first invocation returned.
C18_SecondInvocationNewArtifact ==
    invocation = "second" =>
        /\ ref \in CompletedRefs
        /\ SecondStartsAfresh
        /\ (pc = "done" /\ status = 200 /\ earlier.status = 200) =>
              body.url # earlier.url

\* the part of C18 that the code keeps: all of it but the new identifier
C18_SecondInvocationAfresh ==
    invocation = "second" =>
        /\ ref \in CompletedRefs
        /\ SecondStartsAfresh

\* both invocations served, the second under an identifier of its own
C18_TwoArtifacts ==
    /\ invocation = "second"
    /\ pc = "done"
    /\ status = 200
    /\ earlier.status = 200
    /\ body.url # earlier.url
    /\ files[earlier.url] = "complete"
    /\ files[body.url] = "complete"

====
